---- MODULE Spec2Model ----
(***************************************************************************)
(* Model of Main.py, the HTML / JS / CSS cleaning tool.                    *)
(*                                                                         *)
(* A text is a sequence of pieces.  The characters the code's patterns     *)
(* tell apart (space, tab, newline, "/", "*", "}") are always pieces of    *)
(* their own; any other piece is a run of characters that every operation  *)
(* of the code copies unchanged.  The concatenation of the pieces is the   *)
(* text.                                                                   *)
(***************************************************************************)
EXTENDS Naturals, Sequences, FiniteSets

NL == "\n"
TAB == "\t"
SP == " "

\* What str.strip() removes and what the pattern \s matches.
Whitespace == {SP, TAB, NL}

(***************************************************************************)
(* Sequence helpers.                                                       *)
(***************************************************************************)
Drop(s, n) == SubSeq(s, n + 1, Len(s))

Take(s, n) == SubSeq(s, 1, n)

StartsWith(s, p) == Len(p) <= Len(s) /\ Take(s, Len(p)) = p

\* The least i >= from with StartsWith(Drop(s, i - 1), p), or 0.
RECURSIVE Find(_, _, _)
Find(s, p, from) ==
    IF from + Len(p) - 1 > Len(s) THEN 0
    ELSE IF SubSeq(s, from, from + Len(p) - 1) = p THEN from
    ELSE Find(s, p, from + 1)

Contains(s, p) == Find(s, p, 1) # 0

(***************************************************************************)
(* str.splitlines(), str.strip() and "\n".join(...).                       *)
(***************************************************************************)
RECURSIVE SplitLinesFrom(_, _, _)
SplitLinesFrom(s, i, cur) ==
    IF i > Len(s) THEN (IF cur = <<>> THEN <<>> ELSE <<cur>>)
    ELSE IF s[i] = NL THEN <<cur>> \o SplitLinesFrom(s, i + 1, <<>>)
    ELSE SplitLinesFrom(s, i + 1, Append(cur, s[i]))

SplitLines(s) == SplitLinesFrom(s, 1, <<>>)

RECURSIVE LStrip(_)
LStrip(s) ==
    IF s # <<>> /\ s[1] \in Whitespace THEN LStrip(Tail(s)) ELSE s

RECURSIVE RStrip(_)
RStrip(s) ==
    IF s # <<>> /\ s[Len(s)] \in Whitespace THEN RStrip(Take(s, Len(s) - 1)) ELSE s

Strip(s) == RStrip(LStrip(s))

RECURSIVE JoinLines(_)
JoinLines(ls) ==
    IF ls = <<>> THEN <<>>
    ELSE IF Len(ls) = 1 THEN ls[1]
    ELSE ls[1] \o <<NL>> \o JoinLines(Tail(ls))

\* Mutant: the lines are trimmed and none is dropped.
RECURSIVE StripEach(_)
StripEach(ls) ==
    IF ls = <<>> THEN <<>> ELSE <<Strip(ls[1])>> \o StripEach(Tail(ls))

StripLinesKeepBlank(s) == JoinLines(StripEach(SplitLines(s)))

\* [line.strip() for line in lines if line.strip()]
RECURSIVE StrippedNonBlank(_)
StrippedNonBlank(ls) ==
    IF ls = <<>> THEN <<>>
    ELSE IF Strip(ls[1]) = <<>> THEN StrippedNonBlank(Tail(ls))
    ELSE <<Strip(ls[1])>> \o StrippedNonBlank(Tail(ls))

\* "\n".join([line.strip() for line in text.splitlines() if line.strip()])
StripLines(s) == JoinLines(StrippedNonBlank(SplitLines(s)))

(***************************************************************************)
(* The substitutions.  re.sub and str.replace scan from left to right and  *)
(* resume after each match; what they put in is not scanned again.         *)
(***************************************************************************)
\* Mutant: the greedy pattern /\*.*\*/, which runs to the last "*/".
RECURSIVE FindLast(_, _, _)
FindLast(s, p, from) ==
    IF Find(s, p, from) = 0 THEN 0
    ELSE IF Find(s, p, Find(s, p, from) + 1) = 0 THEN Find(s, p, from)
    ELSE FindLast(s, p, Find(s, p, from) + 1)

RECURSIVE RemoveBlockCommentsGreedy(_)
RemoveBlockCommentsGreedy(s) ==
    IF s = <<>> THEN <<>>
    ELSE IF StartsWith(s, <<"/", "*">>) /\ Find(s, <<"*", "/">>, 3) # 0
         THEN RemoveBlockCommentsGreedy(Drop(s, FindLast(s, <<"*", "/">>, 3) + 1))
    ELSE <<s[1]>> \o RemoveBlockCommentsGreedy(Tail(s))

\* re.sub(r"/\*.*?\*/", "", s, flags=re.DOTALL)
RECURSIVE RemoveBlockComments(_)
RemoveBlockComments(s) ==
    IF s = <<>> THEN <<>>
    ELSE IF StartsWith(s, <<"/", "*">>) /\ Find(s, <<"*", "/">>, 3) # 0
         THEN RemoveBlockComments(Drop(s, Find(s, <<"*", "/">>, 3) + 1))
    ELSE <<s[1]>> \o RemoveBlockComments(Tail(s))

\* re.sub(r"//.*?$", "", s, flags=re.MULTILINE): "." stops at a newline
RECURSIVE SkipToLineEnd(_)
SkipToLineEnd(s) ==
    IF s = <<>> \/ s[1] = NL THEN s ELSE SkipToLineEnd(Tail(s))

RECURSIVE RemoveLineComments(_)
RemoveLineComments(s) ==
    IF s = <<>> THEN <<>>
    ELSE IF StartsWith(s, <<"/", "/">>) THEN RemoveLineComments(SkipToLineEnd(s))
    ELSE <<s[1]>> \o RemoveLineComments(Tail(s))

\* The length of the whitespace run s starts with.
RECURSIVE SpaceRun(_)
SpaceRun(s) ==
    IF s # <<>> /\ s[1] \in Whitespace THEN 1 + SpaceRun(Tail(s)) ELSE 0

\* re.sub(r"\s+", " ", s)
RECURSIVE CollapseWhitespace(_)
CollapseWhitespace(s) ==
    IF s = <<>> THEN <<>>
    ELSE IF s[1] \in Whitespace THEN <<SP>> \o CollapseWhitespace(Drop(s, SpaceRun(s)))
    ELSE <<s[1]>> \o CollapseWhitespace(Tail(s))

\* s.replace(old, new)
RECURSIVE Replace(_, _, _)
Replace(s, old, new) ==
    IF s = <<>> THEN <<>>
    ELSE IF StartsWith(s, old) THEN new \o Replace(Drop(s, Len(old)), old, new)
    ELSE <<s[1]>> \o Replace(Tail(s), old, new)

\* The last position of a newline among the first n pieces of s, or 0.
RECURSIVE LastNewline(_, _)
LastNewline(s, n) ==
    IF n = 0 THEN 0 ELSE IF s[n] = NL THEN n ELSE LastNewline(s, n - 1)

\* re.sub(r"\n\s*\n", "\n", s): \s* is greedy and gives back down to the
\* last newline of the whitespace run.
RECURSIVE CollapseBlankLines(_)
CollapseBlankLines(s) ==
    IF s = <<>> THEN <<>>
    ELSE IF s[1] = NL /\ LastNewline(Tail(s), SpaceRun(Tail(s))) # 0
         THEN <<NL>> \o CollapseBlankLines(
                  Drop(s, 1 + LastNewline(Tail(s), SpaceRun(Tail(s)))))
    ELSE <<s[1]>> \o CollapseBlankLines(Tail(s))

\* re.sub(r"(\})", r"\1\n", s)
NewlineAfterBraces(s) == Replace(s, <<"}">>, <<"}", NL>>)

(***************************************************************************)
(* The configuration and the watermark.                                    *)
(***************************************************************************)
Formats == {"compact", "readable"}

\* Every value DEFAULT_CONFIG can hold once main() has stored the answers.
Configs ==
    [clean_format : Formats, remove_comments : BOOLEAN,
     remove_empty_lines : BOOLEAN, normalize_indentation : BOOLEAN,
     js_minify : BOOLEAN, optimize_css : BOOLEAN, dry_run : BOOLEAN]

DEFAULT_CONFIG ==
    [clean_format |-> "compact", remove_comments |-> TRUE,
     remove_empty_lines |-> TRUE, normalize_indentation |-> TRUE,
     js_minify |-> FALSE, optimize_css |-> FALSE, dry_run |-> FALSE]

Indent == <<SP, SP, SP, SP>>

WATERMARK ==
    <<NL, "/", "*", SP, NL>>
    \o Indent \o <<"Cleaned", SP, "by", SP, "TheZ", SP, "Cleaning", SP, "Tool", SP, NL>>
    \o Indent \o <<"Watermark:", SP, "'This", SP, "file", SP, "was", SP, "processed",
                   SP, "by", SP, "TheZ's", SP, "Cleaning", SP, "Tool'", NL>>
    \o Indent \o <<"For", SP, "support", SP, "and", SP, "feedback,", SP, "visit:", SP,
                   "https:", "/", "/", "discord.gg", "/", "zsGTqgnsmK", SP, NL>>
    \o Indent \o <<"Version:", SP, "1.1", NL>>
    \o <<"*", "/", NL>>

\* Mutant: the watermark is put after the content.
add_watermark_at_end(content) == content \o WATERMARK

add_watermark(content) == WATERMARK \o content

(***************************************************************************)
(* The three pipelines, each up to the text handed to add_watermark.       *)
(***************************************************************************)
\* clean_js, lines 98-116
JsRemoveComments(js_code, cfg) ==
    IF cfg.remove_comments
    THEN RemoveBlockComments(RemoveLineComments(js_code))
    ELSE js_code

\* Mutant: the newlines are deleted and the whitespace is not collapsed.
JsMinifyNewlinesOnly(js_code, cfg) ==
    IF cfg.js_minify THEN Replace(js_code, <<NL>>, <<>>) ELSE js_code

JsMinify(js_code, cfg) ==
    IF cfg.js_minify
    THEN Replace(CollapseWhitespace(js_code), <<NL>>, <<>>)
    ELSE js_code

JsFormat(js_code, cfg) ==
    IF cfg.clean_format = "compact" THEN CollapseBlankLines(js_code)
    ELSE IF cfg.clean_format = "readable" THEN NewlineAfterBraces(js_code)
    ELSE js_code

JsTransform(js_code, cfg) ==
    JsFormat(JsMinify(StripLines(JsRemoveComments(js_code, cfg)), cfg), cfg)

\* clean_css, lines 136-151
\* Mutant: the comments are removed whatever remove_comments is.
CssRemoveCommentsAlways(css_code, cfg) == RemoveBlockComments(css_code)

CssRemoveComments(css_code, cfg) ==
    IF cfg.remove_comments THEN RemoveBlockComments(css_code) ELSE css_code

\* The optimize_css branch is "pass".
CssOptimize(css_code, cfg) == css_code

CssFormat(css_code, cfg) ==
    IF cfg.clean_format = "compact" THEN Replace(css_code, <<NL, NL>>, <<>>)
    ELSE IF cfg.clean_format = "readable" THEN NewlineAfterBraces(css_code)
    ELSE css_code

CssTransform(css_code, cfg) ==
    CssFormat(StripLines(CssOptimize(CssRemoveComments(css_code, cfg), cfg)), cfg)

\* clean_html, lines 66-77, applied to what soup.prettify returned
HtmlRemoveEmptyLines(cleaned_html, cfg) ==
    IF cfg.remove_empty_lines THEN StripLines(cleaned_html) ELSE cleaned_html

HtmlNormalizeIndentation(cleaned_html, cfg) ==
    IF cfg.normalize_indentation THEN Replace(cleaned_html, <<TAB>>, Indent)
    ELSE cleaned_html

HtmlFormat(cleaned_html, cfg) ==
    IF cfg.clean_format = "compact" THEN Replace(cleaned_html, <<NL, NL>>, <<>>)
    ELSE IF cfg.clean_format = "readable" THEN NewlineAfterBraces(cleaned_html)
    ELSE cleaned_html

HtmlTransform(cleaned_html, cfg) ==
    HtmlFormat(HtmlNormalizeIndentation(HtmlRemoveEmptyLines(cleaned_html, cfg), cfg), cfg)

(***************************************************************************)
(* The file tree, the backup directory and the log.                        *)
(*                                                                         *)
(* A path is a directory and a file name; a file name is its stem and its  *)
(* ending.  The backup directory and the log file are outside the walk     *)
(* root.                                                                   *)
(***************************************************************************)
Path(d, stem, ending) == [dir |-> d, name |-> <<stem, ending>>]

\* os.path.basename(file_path)
basename(file_path) == file_path.name

\* file.endswith(ending)
endswith(file, ending) == file[Len(file)] = ending

\* Mutant: the last branch is an else, so every other file is a stylesheet.
KindOfElseCss(file) ==
    IF endswith(file, ".html") THEN "html"
    ELSE IF endswith(file, ".js") THEN "js"
    ELSE "css"

\* The dispatch of clean_directory, lines 175-180.
KindOf(file) ==
    IF endswith(file, ".html") THEN "html"
    ELSE IF endswith(file, ".js") THEN "js"
    ELSE IF endswith(file, ".css") THEN "css"
    ELSE "none"

Kinds == {"html", "js", "css"}

JsA == Path(<<"d1">>, "a", ".js")
JsB == Path(<<"d2">>, "a", ".js")
CssFile == Path(<<>>, "b", ".css")
HtmlFile == Path(<<"d1", "e">>, "c", ".html")
TxtFile == Path(<<>>, "n", ".txt")

\* The files under the walk root; a directory is its path from the root.
Files == {JsA, JsB, CssFile, HtmlFile, TxtFile}

Recognized == {f \in Files : KindOf(basename(f)) # "none"}

InitialContent(f) ==
    IF f = JsA THEN <<"x", SP, "/", "/", "c", NL, NL, NL, "y", "}">>
    ELSE IF f = JsB THEN <<"z", NL, "/", "*", "k", "*", "/">>
    ELSE IF f = CssFile
         THEN <<"a", "{", "}", SP, "/", "*", "c", NL, "s", "*", "/", SP, "b", "{", "}">>
    ELSE IF f = HtmlFile THEN <<"<p>", "x", "<", "/", "p>">>
    ELSE <<"note">>

RECURSIVE Orders(_)
Orders(S) ==
    IF S = {} THEN {<<>>}
    ELSE UNION {{<<f>> \o o : o \in Orders(S \ {f})} : f \in S}

Position(o, f) == CHOOSE i \in 1..Len(o) : o[i] = f

Under(f, d) == StartsWith(f.dir, d)

\* os.walk(directory) is top-down: a directory's files come before those of
\* its subdirectories, and each subtree is walked as a whole; the order
\* within a listing is the system's.
WalkOrders ==
    {o \in Orders(Files) :
        \A d \in {f.dir : f \in Files} :
            /\ \A i, j \in 1..Len(o) :
                  (o[i].dir = d /\ Under(o[j], d) /\ o[j].dir # d) => i < j
            /\ \A i, j, k \in 1..Len(o) :
                  (i < j /\ j < k /\ Under(o[i], d) /\ Under(o[k], d)) => Under(o[j], d)}

\* An I/O failure is a condition of one file that lasts: the copy fails,
\* the read fails, the file cannot be opened for writing, or the write fails
\* after open(..., "w") has emptied the file.
FaultOps == {"copy", "read", "open_write", "write"}

Faults == [file : Recognized, op : FaultOps]

\* soup.prettify(formatter="html") is library code: its result is one of
\* these serializations of the document.
Prettify(markup) ==
    {markup \o <<NL>>, <<TAB>> \o markup \o <<NL, NL, "}", NL>>}

VARIABLES
    fs,        \* the content of each file under the walk root
    backup,    \* the backup directory: base file name -> content
    log,       \* cleanup_log.txt, one record per line
    config,    \* DEFAULT_CONFIG
    status,    \* "idle", "walking", "finished", "raised"
    todo,      \* the files the walk has still to yield, the current one first
    pc,        \* where the current file's clean_* call stands
    buf,       \* the local text of the clean_* call (js_code, css_code, ...)
    runs,      \* calls of clean_directory so far
    order,     \* the listing order os.walk yields
    fault,     \* the failing I/O operation, if any (at most one element)
    hist,      \* every file operation attempted so far, in order
    runStart,  \* Len(hist) when the current run began
    startFs,   \* fs when the current run began
    startLog,  \* Len(log) when the current run began
    srcKind,   \* pipeline runs: the kind of the text
    srcText,   \* pipeline runs: the text given to the pipeline
    outText,   \* pipeline runs: the text the last pass produced
    firstOut,  \* pipeline runs: the text the first pass produced
    passes     \* pipeline runs: passes made (0, 1, 2)

walkVars == <<fs, backup, log, status, todo, pc, buf, runs, order, fault,
              hist, runStart, startFs, startLog>>

pipeVars == <<srcKind, srcText, outText, firstOut, passes>>

vars == <<walkVars, config, pipeVars>>

MaxRuns == 2

Event(o, f, success, t) == [op |-> o, file |-> f, ok |-> success, text |-> t]

\* log_message, lines 33-37
log_message(message) == log' = Append(log, message)

Init ==
    /\ fs = [f \in Files |-> InitialContent(f)]
    /\ backup = <<>>
    /\ log = <<>>
    /\ config = DEFAULT_CONFIG
    /\ status = "idle"
    /\ todo = <<>>
    /\ pc = "next"
    /\ buf = <<>>
    /\ runs = 0
    /\ order \in WalkOrders
    /\ fault \in {{}} \cup {{x} : x \in Faults}
    /\ hist = <<>>
    /\ runStart = 0
    /\ startFs = [f \in Files |-> InitialContent(f)]
    /\ startLog = 0
    /\ srcKind = "js" /\ srcText = <<>> /\ outText = <<>> /\ firstOut = <<>>
    /\ passes = 0

Failing(f, o) == [file |-> f, op |-> o] \in fault

\* Mutant: the exception is caught and the call goes on.
RaiseCaught == UNCHANGED status

\* An exception leaves the clean_* call and clean_directory: nothing catches it.
Raise == status' = "raised"

\* clean_directory, lines 167-170, called with an existing directory or not;
\* the caller has set dry_run.
StartRun(clean_format, dry_run, exists) ==
    /\ status # "walking"
    /\ runs < MaxRuns
    /\ runs' = runs + 1
    /\ config' = [config EXCEPT !.clean_format = clean_format, !.dry_run = dry_run]
    /\ runStart' = Len(hist)
    /\ startFs' = fs
    /\ startLog' = Len(log)
    /\ pc' = "next"
    /\ buf' = <<>>
    /\ IF exists
       THEN /\ status' = "walking"
            /\ todo' = order
            /\ UNCHANGED log
       ELSE /\ log_message([msg |-> "Directory does not exist", file |-> Path(<<"missing">>, "", "")])
            /\ status' = "finished"
            /\ todo' = <<>>
    /\ UNCHANGED <<fs, backup, order, fault, hist>>
    /\ UNCHANGED pipeVars

\* The walk yields no more files: clean_directory returns.
WalkDone ==
    /\ status = "walking" /\ pc = "next" /\ todo = <<>>
    /\ status' = "finished"
    /\ UNCHANGED <<fs, backup, log, config, todo, pc, buf, runs, order, fault,
                   hist, runStart, startFs, startLog>>
    /\ UNCHANGED pipeVars

\* One turn of the loop, lines 173-180.
Visit ==
    /\ status = "walking" /\ pc = "next" /\ todo # <<>>
    /\ hist' = Append(hist, Event("visit", Head(todo), TRUE, fs[Head(todo)]))
    /\ IF KindOf(basename(Head(todo))) \in Kinds
       THEN pc' = "backup" /\ UNCHANGED todo
       ELSE todo' = Tail(todo) /\ UNCHANGED pc
    /\ UNCHANGED <<fs, backup, log, config, status, buf, runs, order, fault,
                   runStart, startFs, startLog>>
    /\ UNCHANGED pipeVars

\* Mutant: a dry run makes no backup.
create_backup_not_in_dry_run ==
    /\ status = "walking" /\ pc = "backup"
    /\ LET file_path == Head(todo)
           backup_path == basename(file_path)
       IN IF config.dry_run
          THEN UNCHANGED <<hist, backup, log>>
          ELSE /\ hist' = Append(hist, Event("copy", file_path, TRUE, fs[file_path]))
               /\ backup' = [n \in DOMAIN backup \cup {backup_path} |->
                                IF n = backup_path THEN fs[file_path] ELSE backup[n]]
               /\ log_message([msg |-> "Backup created", file |-> file_path])
    /\ pc' = "read"
    /\ UNCHANGED <<fs, config, status, todo, buf, runs, order, fault, runStart,
                   startFs, startLog>>
    /\ UNCHANGED pipeVars

\* Mutant: an entry the backup directory already has is not overwritten.
create_backup_keeps_existing ==
    /\ status = "walking" /\ pc = "backup"
    /\ LET file_path == Head(todo)
           backup_path == basename(file_path)
       IN /\ hist' = Append(hist, Event("copy", file_path, TRUE, fs[file_path]))
          /\ backup' = [n \in DOMAIN backup \cup {backup_path} |->
                           IF n \in DOMAIN backup THEN backup[n] ELSE fs[file_path]]
          /\ log_message([msg |-> "Backup created", file |-> file_path])
    /\ pc' = "read"
    /\ UNCHANGED <<fs, config, status, todo, buf, runs, order, fault, runStart,
                   startFs, startLog>>
    /\ UNCHANGED pipeVars

\* create_backup, lines 39-45
create_backup ==
    /\ status = "walking" /\ pc = "backup"
    /\ LET file_path == Head(todo)
           backup_path == basename(file_path)
       IN IF Failing(file_path, "copy")
          THEN /\ hist' = Append(hist, Event("copy", file_path, FALSE, <<>>))
               /\ Raise
               /\ UNCHANGED <<backup, log, pc>>
          ELSE /\ hist' = Append(hist, Event("copy", file_path, TRUE, fs[file_path]))
               /\ backup' = [n \in DOMAIN backup \cup {backup_path} |->
                                IF n = backup_path THEN fs[file_path] ELSE backup[n]]
               /\ log_message([msg |-> "Backup created", file |-> file_path])
               /\ pc' = "read"
               /\ UNCHANGED status
    /\ UNCHANGED <<fs, config, todo, buf, runs, order, fault, runStart, startFs, startLog>>
    /\ UNCHANGED pipeVars

\* The read of clean_html (54-55), clean_js (95-96) and clean_css (133-134).
ReadFile ==
    /\ status = "walking" /\ pc = "read"
    /\ LET file_path == Head(todo)
       IN IF Failing(file_path, "read")
          THEN /\ hist' = Append(hist, Event("read", file_path, FALSE, <<>>))
               /\ Raise
               /\ UNCHANGED <<buf, pc>>
          ELSE /\ hist' = Append(hist, Event("read", file_path, TRUE, fs[file_path]))
               /\ buf' = fs[file_path]
               /\ pc' = "clean"
               /\ UNCHANGED status
    /\ UNCHANGED <<fs, backup, log, config, todo, runs, order, fault, runStart,
                   startFs, startLog>>
    /\ UNCHANGED pipeVars

\* The text each clean_* call builds, watermark included.
clean_js(js_code, cfg) == add_watermark(JsTransform(js_code, cfg))

clean_css(css_code, cfg) == add_watermark(CssTransform(css_code, cfg))

clean_html(cleaned_html, cfg) == add_watermark(HtmlTransform(cleaned_html, cfg))

CleanText ==
    /\ status = "walking" /\ pc = "clean"
    /\ LET kind == KindOf(basename(Head(todo)))
       IN IF kind = "js" THEN buf' = clean_js(buf, config)
          ELSE IF kind = "css" THEN buf' = clean_css(buf, config)
          ELSE \E cleaned_html \in Prettify(buf) : buf' = clean_html(cleaned_html, config)
    /\ pc' = "write"
    /\ UNCHANGED <<fs, backup, log, config, status, todo, runs, order, fault,
                   hist, runStart, startFs, startLog>>
    /\ UNCHANGED pipeVars

DryRunMessage(kind) ==
    IF kind = "html" THEN "Dry run: HTML changes"
    ELSE IF kind = "js" THEN "Dry run: JS changes"
    ELSE "Dry run: CSS changes"

CleanedMessage(kind) ==
    IF kind = "html" THEN "HTML cleaned"
    ELSE IF kind = "js" THEN "JavaScript cleaned"
    ELSE "CSS cleaned"

\* Mutant: the dry-run line is logged and the file is written all the same.
FinishWritesAlways ==
    /\ status = "walking" /\ pc = "write"
    /\ LET file_path == Head(todo)
           kind == KindOf(basename(file_path))
       IN /\ hist' = Append(hist, Event("write", file_path, TRUE, buf))
          /\ fs' = [fs EXCEPT ![file_path] = buf]
          /\ log_message([msg |-> IF config.dry_run THEN DryRunMessage(kind)
                                  ELSE CleanedMessage(kind),
                          file |-> file_path])
          /\ todo' = Tail(todo)
          /\ pc' = "next"
    /\ UNCHANGED <<backup, config, status, buf, runs, order, fault, runStart,
                   startFs, startLog>>
    /\ UNCHANGED pipeVars

\* The end of each clean_* call: lines 82-89, 121-128, 156-163.
Finish ==
    /\ status = "walking" /\ pc = "write"
    /\ LET file_path == Head(todo)
           kind == KindOf(basename(file_path))
       IN IF config.dry_run
          THEN /\ log_message([msg |-> DryRunMessage(kind), file |-> file_path])
               /\ todo' = Tail(todo)
               /\ pc' = "next"
               /\ UNCHANGED <<fs, hist, status>>
          ELSE IF Failing(file_path, "open_write")
          THEN /\ hist' = Append(hist, Event("write", file_path, FALSE, buf))
               /\ Raise
               /\ UNCHANGED <<fs, log, todo, pc>>
          ELSE IF Failing(file_path, "write")
          THEN /\ hist' = Append(hist, Event("write", file_path, FALSE, buf))
               /\ fs' = [fs EXCEPT ![file_path] = <<>>]
               /\ Raise
               /\ UNCHANGED <<log, todo, pc>>
          ELSE /\ hist' = Append(hist, Event("write", file_path, TRUE, buf))
               /\ fs' = [fs EXCEPT ![file_path] = buf]
               /\ log_message([msg |-> CleanedMessage(kind), file |-> file_path])
               /\ todo' = Tail(todo)
               /\ pc' = "next"
               /\ UNCHANGED status
    /\ UNCHANGED <<backup, config, buf, runs, order, fault, runStart, startFs, startLog>>
    /\ UNCHANGED pipeVars

Next ==
    \/ \E clean_format \in Formats, dry_run \in BOOLEAN, exists \in BOOLEAN :
          StartRun(clean_format, dry_run, exists)
    \/ WalkDone
    \/ Visit
    \/ create_backup
    \/ ReadFile
    \/ CleanText
    \/ Finish

Spec == Init /\ [][Next]_vars

(***************************************************************************)
(* The pipelines on their own: a text of a bounded set is cleaned under a  *)
(* configuration, and the result is cleaned again under the same one.      *)
(***************************************************************************)
MaxPieces == 3

\* What a script or a stylesheet is made of here, and what a serialized
\* document is made of.
CodeTokens == {<<"a">>, <<SP>>, <<NL>>, <<"}">>, <<"/">>, <<"/", "*">>, <<"*", "/">>}

MarkupTokens == {<<"a">>, <<SP>>, <<NL>>, <<"}">>, <<TAB>>}

RECURSIVE TextsOf(_, _)
TextsOf(tokens, n) ==
    IF n = 0 THEN {<<>>}
    ELSE TextsOf(tokens, n - 1)
         \cup {t \o k : t \in TextsOf(tokens, n - 1), k \in tokens}

\* "function f() {\n  return 1;\n}"
MinifyExample ==
    <<"function", SP, "f()", SP, "{", NL, SP, SP, "return", SP, "1;", NL, "}">>

\* three consecutive blank lines between statements
BlankLinesExample == <<"a;", NL, NL, NL, NL, "b;", SP, "/", "/", "c", NL, "}", NL, "d">>

\* "a{color:red;} /* comment \n spanning */ b{}"
CommentExample ==
    <<"a{color:red;", "}", SP, "/", "*", SP, "comment", SP, NL, SP, "spanning", SP,
      "*", "/", SP, "b{", "}">>

\* "//**/* */": deleting the comment joins "/" and "* */"
SpliceExample == <<"/", "/", "*", "*", "/", "*", SP, "*", "/">>

Examples == {MinifyExample, BlankLinesExample, CommentExample, SpliceExample}

\* For "html" the text is what soup.prettify returned.
Texts(kind) ==
    IF kind = "html" THEN TextsOf(MarkupTokens, MaxPieces)
    ELSE TextsOf(CodeTokens, MaxPieces) \cup Examples

\* The options each pipeline is run under; those left out stay as in
\* DEFAULT_CONFIG.
PipelineConfigs(kind) ==
    {c \in Configs :
        /\ c.dry_run = DEFAULT_CONFIG.dry_run
        /\ kind # "html" => c.normalize_indentation = DEFAULT_CONFIG.normalize_indentation
        /\ kind # "js" => c.js_minify = DEFAULT_CONFIG.js_minify
        /\ kind = "css" => c.remove_empty_lines = DEFAULT_CONFIG.remove_empty_lines
        /\ kind # "css" => c.optimize_css = DEFAULT_CONFIG.optimize_css
        /\ kind = "html" => c.remove_comments = DEFAULT_CONFIG.remove_comments}

Transform(kind, text, cfg) ==
    IF kind = "js" THEN JsTransform(text, cfg)
    ELSE IF kind = "css" THEN CssTransform(text, cfg)
    ELSE HtmlTransform(text, cfg)

Clean(kind, text, cfg) ==
    IF kind = "js" THEN clean_js(text, cfg)
    ELSE IF kind = "css" THEN clean_css(text, cfg)
    ELSE clean_html(text, cfg)

PipelineInit ==
    /\ fs = [f \in Files |-> InitialContent(f)]
    /\ backup = <<>>
    /\ log = <<>>
    /\ config = DEFAULT_CONFIG
    /\ status = "idle"
    /\ todo = <<>>
    /\ pc = "next"
    /\ buf = <<>>
    /\ runs = 0
    /\ order = CHOOSE o \in WalkOrders : TRUE
    /\ fault = {}
    /\ hist = <<>>
    /\ runStart = 0
    /\ startFs = [f \in Files |-> InitialContent(f)]
    /\ startLog = 0
    /\ srcKind \in Kinds
    /\ srcText \in Texts(srcKind)
    /\ outText = <<>>
    /\ firstOut = <<>>
    /\ passes = 0

\* One call of a pipeline on the text, under the options cfg.
Apply(cfg) ==
    /\ passes = 0
    /\ config' = cfg
    /\ outText' = Clean(srcKind, srcText, cfg)
    /\ firstOut' = outText'
    /\ passes' = 1
    /\ UNCHANGED <<walkVars, srcKind, srcText>>

\* clean_css run again on the file its first run wrote.
ApplyAgain ==
    /\ passes = 1
    /\ srcKind = "css"
    /\ outText' = Clean(srcKind, outText, config)
    /\ passes' = 2
    /\ UNCHANGED <<walkVars, config, srcKind, srcText, firstOut>>

PipelineNext ==
    \/ \E cfg \in PipelineConfigs(srcKind) : Apply(cfg)
    \/ ApplyAgain

PipelineSpec == PipelineInit /\ [][PipelineNext]_vars

(***************************************************************************)
(* What the claims speak of.                                               *)
(***************************************************************************)
\* The operations and the log lines of the current run.
RunEvents == runStart + 1 .. Len(hist)

RunLog == startLog + 1 .. Len(log)

Attempted(o, f) == \E i \in RunEvents : hist[i].op = o /\ hist[i].file = f

Copied(f) == \E i \in RunEvents : hist[i] = Event("copy", f, TRUE, hist[i].text)

Logged(f) == \E i \in RunLog : log[i].file = f

Waiting(f) == \E i \in 1..Len(todo) : todo[i] = f

\* The walk has visited f and gone on to the next file.
Processed(f) == Attempted("visit", f) /\ ~Waiting(f)

\* The text a pass was given and the text it put after the watermark.
Input == IF passes = 2 THEN firstOut ELSE srcText

Body == Drop(outText, Len(WATERMARK))

NonSpace(s) == SelectSeq(s, LAMBDA c : c \notin Whitespace)

RECURSIVE IsSubsequence(_, _)
IsSubsequence(a, b) ==
    IF a = <<>> THEN TRUE
    ELSE IF b = <<>> THEN FALSE
    ELSE IF a[1] = b[1] THEN IsSubsequence(Tail(a), Tail(b))
    ELSE IsSubsequence(a, Tail(b))

\* A "/*" with a "*/" after it.
At(s, p, i) == i >= 1 /\ i + Len(p) - 1 <= Len(s) /\ SubSeq(s, i, i + Len(p) - 1) = p

HasCommentPair(s) ==
    \E i \in 1..Len(s) :
        /\ At(s, <<"/", "*">>, i)
        /\ \E j \in i + 2 .. Len(s) : At(s, <<"*", "/">>, j)

IsBlank(line) == \A i \in 1..Len(line) : line[i] \in Whitespace

HasBlankLine(s) ==
    LET lines == SplitLines(s) IN \E i \in 1..Len(lines) : IsBlank(lines[i])

LineCount(s) == Len(SplitLines(s))

\* The maximal runs of non-whitespace of s, in order.
RECURSIVE TokensFrom(_, _)
TokensFrom(s, cur) ==
    IF s = <<>> THEN (IF cur = <<>> THEN <<>> ELSE <<cur>>)
    ELSE IF s[1] \in Whitespace
         THEN (IF cur = <<>> THEN <<>> ELSE <<cur>>) \o TokensFrom(Tail(s), <<>>)
    ELSE TokensFrom(Tail(s), Append(cur, s[1]))

Tokens(s) == TokensFrom(s, <<>>)

RECURSIVE SpaceSeparated(_)
SpaceSeparated(ts) ==
    IF ts = <<>> THEN <<>>
    ELSE IF Len(ts) = 1 THEN ts[1]
    ELSE ts[1] \o <<SP>> \o SpaceSeparated(Tail(ts))

\* The lines of s that are not blank, trimmed.
NonBlankLines(s) == StrippedNonBlank(SplitLines(s))

(***************************************************************************)
(* C1.  In every run, dry or not, a file is read or written only after     *)
(* its backup copy has been made in that run, and a file whose content     *)
(* differs from what it was when the run began has been backed up in the   *)
(* run.                                                                    *)
(***************************************************************************)
C1_BackupFirst ==
    /\ \A i \in RunEvents :
          hist[i].op \in {"read", "write"} =>
              \E j \in RunEvents :
                  j < i /\ hist[j].op = "copy" /\ hist[j].ok /\ hist[j].file = hist[i].file
    /\ \A f \in Files :
          (fs[f] # startFs[f] \/ (status = "walking" /\ pc \in {"clean", "write"} /\ Head(todo) = f))
              => Copied(f) /\ basename(f) \in DOMAIN backup

C1_Witness ==
    /\ config.dry_run
    /\ status = "finished"
    /\ \A f \in Recognized : Attempted("read", f) /\ Copied(f)

(***************************************************************************)
(* C2.  In a dry run no file under the root changes, while every           *)
(* recognized file the walk has processed has a backup entry and a log     *)
(* line of this run.                                                       *)
(***************************************************************************)
C2_DryRun ==
    (config.dry_run /\ status # "idle") =>
        /\ fs = startFs
        /\ \A f \in Recognized :
              Processed(f) => basename(f) \in DOMAIN backup /\ Logged(f)

C2_Witness ==
    /\ config.dry_run
    /\ status = "finished"
    /\ \A f \in Recognized : Processed(f) /\ Logged(f)

C9_FailureEndsRun ==
    /\ \A i \in RunEvents :
          ~hist[i].ok =>
              /\ i = Len(hist)
              /\ status = "raised"
              /\ todo # <<>> /\ Head(todo) = hist[i].file
              /\ \A k \in 2..Len(todo) :
                    /\ \A j \in RunEvents : hist[j].file # todo[k]
                    /\ fs[todo[k]] = startFs[todo[k]]
                    /\ ~Logged(todo[k])
              /\ \A g \in Recognized :
                    Processed(g) =>
                        /\ Logged(g)
                        /\ IF config.dry_run THEN fs[g] = startFs[g]
                           ELSE \E j \in RunEvents :
                                   hist[j] = Event("write", g, TRUE, fs[g])
    /\ \A i, j \in RunEvents :
          (hist[i].op = hist[j].op /\ hist[i].file = hist[j].file) => i = j
    /\ status = "raised" => ~hist[Len(hist)].ok /\ Len(hist) \in RunEvents

C9_Witness ==
    /\ status = "raised"
    /\ runs = 2
    /\ ~config.dry_run
    /\ Len(todo) >= 2
    /\ \E g \in Recognized : Processed(g) /\ fs[g] # startFs[g]

(***************************************************************************)
(* C10.  The backup entry named b holds what the file of base name b       *)
(* whose backup copy was made last held when the walk came to it.  So of   *)
(* two files of one base name the later-walked one's content is kept.      *)
(***************************************************************************)
LastCopy(b) ==
    CHOOSE i \in 1..Len(hist) :
        /\ hist[i].op = "copy" /\ hist[i].ok /\ basename(hist[i].file) = b
        /\ \A j \in i + 1 .. Len(hist) :
              ~(hist[j].op = "copy" /\ hist[j].ok /\ basename(hist[j].file) = b)

LastVisitBefore(i) ==
    CHOOSE v \in 1..i :
        /\ hist[v].op = "visit" /\ hist[v].file = hist[i].file
        /\ \A j \in v + 1 .. i : ~(hist[j].op = "visit" /\ hist[j].file = hist[i].file)

C10_BackupHoldsLastProcessed ==
    /\ \A i \in 1..Len(hist) :
          (hist[i].op = "copy" /\ hist[i].ok) => basename(hist[i].file) \in DOMAIN backup
    /\ \A b \in DOMAIN backup :
          /\ \E i \in 1..Len(hist) :
                hist[i].op = "copy" /\ hist[i].ok /\ basename(hist[i].file) = b
          /\ backup[b] = hist[LastVisitBefore(LastCopy(b))].text
    /\ \A f, g \in Recognized :
          (/\ f # g /\ basename(f) = basename(g)
           /\ Copied(f) /\ Copied(g)
           /\ \E i, j \in 1..Len(order) : i < j /\ order[i] = g /\ order[j] = f)
              => backup[basename(f)] = startFs[f]

\* A second run that writes: both files named a.js have been processed, and
\* the entry a.js holds the later-walked one's watermarked text of the first
\* run, not the other file's and not the original.
C10_Witness ==
    /\ runs = 2
    /\ status = "finished"
    /\ Processed(JsA) /\ Processed(JsB)
    /\ basename(JsA) \in DOMAIN backup
    /\ StartsWith(backup[basename(JsA)], WATERMARK)
    /\ \E f, g \in {JsA, JsB} :
          /\ Position(order, g) < Position(order, f)
          /\ backup[basename(f)] = startFs[f]
          /\ backup[basename(f)] # startFs[g]
          /\ backup[basename(f)] # InitialContent(f)

(***************************************************************************)
(* C4.  What each of the three pipelines produces is the watermark, piece  *)
(* for piece, followed by the transformed text, in both formats and under  *)
(* every setting of the other options.                                     *)
(***************************************************************************)
C4_WatermarkFirst ==
    passes >= 1 =>
        /\ StartsWith(outText, WATERMARK)
        /\ Body = Transform(srcKind, Input, config)

C4_Witness ==
    /\ passes = 1
    /\ srcKind = "html"
    /\ config.clean_format = "readable"
    /\ ~config.remove_empty_lines
    /\ Body # <<>>
    /\ Body # srcText

(***************************************************************************)
(* C5, as claimed: with remove_comments, for every input, the stylesheet   *)
(* pipeline's output has no comment pair and the text outside the          *)
(* comments survives in order.  It is stated here of the text after the    *)
(* watermark only; the output as a whole always holds the watermark's own  *)
(* comment.                                                                *)
(***************************************************************************)
C5_Claimed ==
    (srcKind = "css" /\ passes >= 1 /\ config.remove_comments) =>
        /\ ~HasCommentPair(Body)
        /\ IsSubsequence(NonSpace(Body), NonSpace(Input))

(***************************************************************************)
(* C5, amended.  With remove_comments the stylesheet pipeline's output is  *)
(* the watermark, itself a comment, and after it a text in which:          *)
(* no comment pair is left unless the input holds "//*" (deleting a        *)
(* comment between a "/" and a "*" makes a new opener); what is not        *)
(* whitespace survives in order and nothing is added; an input with no     *)
(* "/*" loses nothing but whitespace; and an input with one comment, from  *)
(* its first "/*" to the nearest "*/" after it, keeps what is before and   *)
(* after the comment.                                                      *)
(***************************************************************************)
C5_CommentsRemoved ==
    (srcKind = "css" /\ passes >= 1 /\ config.remove_comments) =>
        /\ StartsWith(outText, WATERMARK)
        /\ ~Contains(Input, <<"/", "/", "*">>) => ~HasCommentPair(Body)
        /\ IsSubsequence(NonSpace(Body), NonSpace(Input))
        /\ ~Contains(Input, <<"/", "*">>) => NonSpace(Body) = NonSpace(Input)
        /\ LET i == Find(Input, <<"/", "*">>, 1)
               j == Find(Input, <<"*", "/">>, i + 2)
           IN (i # 0 /\ j # 0 /\ ~Contains(Drop(Input, j + 1), <<"/", "*">>))
                 => NonSpace(Body) = NonSpace(Take(Input, i - 1) \o Drop(Input, j + 1))

C5_Witness ==
    /\ srcKind = "css" /\ passes = 1 /\ config.remove_comments
    /\ srcText = CommentExample
    /\ ~HasCommentPair(Body)
    /\ NonSpace(Body) = <<"a{color:red;", "}", "b{", "}">>

(***************************************************************************)
(* C6, as claimed: the script pipeline's output has no blank line, in      *)
(* every configuration.  It is stated here of the text after the watermark *)
(* only; the output as a whole always begins with the watermark's empty    *)
(* first line.                                                             *)
(***************************************************************************)
C6_Claimed ==
    (srcKind = "js" /\ passes >= 1) => ~HasBlankLine(Body)

(***************************************************************************)
(* C6, amended.  Whatever remove_empty_lines is, the text the script       *)
(* pipeline puts after the watermark has no blank line when the format is  *)
(* compact or js_minify is on; in the readable format without js_minify    *)
(* its only blank lines are those the format step adds after a line that   *)
(* ends in "}".  (The watermark itself begins with an empty line.)         *)
(***************************************************************************)
C6_NoBlankLines ==
    (srcKind = "js" /\ passes >= 1) =>
        LET lines == SplitLines(Body)
        IN /\ (config.clean_format = "compact" \/ config.js_minify) => ~HasBlankLine(Body)
           /\ \A i \in 1..Len(lines) :
                 IsBlank(lines[i]) =>
                     /\ lines[i] = <<>>
                     /\ i > 1
                     /\ lines[i - 1] # <<>>
                     /\ lines[i - 1][Len(lines[i - 1])] = "}"

C6_Witness ==
    /\ srcKind = "js" /\ passes = 1
    /\ srcText = BlankLinesExample
    /\ config.clean_format = "compact"
    /\ ~config.remove_empty_lines
    /\ ~config.remove_comments
    /\ LineCount(Body) = 4

(***************************************************************************)
(* C7, as claimed: with js_minify the output is one line without newline   *)
(* characters, the input's tokens after comment removal separated by       *)
(* single spaces, in both formats.  It is stated here of the text after    *)
(* the watermark only; the watermark itself has seven newlines.            *)
(***************************************************************************)
C7_Claimed ==
    (srcKind = "js" /\ passes >= 1 /\ config.js_minify) =>
        /\ ~Contains(Body, <<NL>>)
        /\ Body = SpaceSeparated(Tokens(JsRemoveComments(Input, config)))

(***************************************************************************)
(* C7, amended.  With js_minify the text after the watermark is, in the    *)
(* compact format, one line without newline characters: the tokens of the  *)
(* input after comment removal, separated by single spaces.  In the        *)
(* readable format it is that line with a newline after every "}".         *)
(***************************************************************************)
C7_Minified ==
    (srcKind = "js" /\ passes >= 1 /\ config.js_minify) =>
        LET expected == SpaceSeparated(Tokens(JsRemoveComments(Input, config)))
        IN /\ config.clean_format = "compact" =>
                 Body = expected /\ ~Contains(Body, <<NL>>)
           /\ config.clean_format = "readable" =>
                 /\ Replace(Body, <<"}", NL>>, <<"}">>) = expected
                 /\ \A i \in 1..Len(Body) :
                       Body[i] = NL <=> (i > 1 /\ Body[i - 1] = "}")

C7_Witness ==
    /\ srcKind = "js" /\ passes = 1 /\ config.js_minify
    /\ srcText = MinifyExample
    /\ config.clean_format = "compact"
    /\ Body = <<"function", SP, "f()", SP, "{", SP, "return", SP, "1;", SP, "}">>

====
